---- MODULE Spec2Model ----
(***************************************************************************)
(* Model of kittenreaper.py: the candidate filter, the seen cache, the     *)
(* worker pool (main process plus W-1 worker processes talking over the    *)
(* work and result queues) and the per-host reboot procedure checkKitten.  *)
(*                                                                         *)
(* Strings that the code inspects character by character (host names,     *)
(* candidate lines, tac file names) are sequences of one-character         *)
(* strings.  Log text is a sequence of phrases; the substring test         *)
(* `"phrase" in data` is membership of the phrase in that sequence.        *)
(* Time is counted in ticks of 1/TicksPerSec second, so that               *)
(* datetime.now() has a sub-second part that strftime drops.               *)
(***************************************************************************)
EXTENDS Bags, FiniteSets, Integers, Naturals, Sequences, TLC

\* ---------------------------------------------------------------- bounds
MaxWorkers == 3
MaxTicks == 1

\* ------------------------------------------------------------- constants
TicksPerSec == 2
RetentionSecs == 3600
GiveUpCount == 30

\* line 118: time.sleep(5)
SleepSecs == 5
Now0 == 20001

\* Python's None, for a value that is otherwise a string
None == <<"None">>

\* ------------------------------------------------------ string functions
Range(s) == {s[i] : i \in DOMAIN s}

\* sub in s  (substring test on character sequences)
Contains(sub, s) ==
  \E i \in 0..(Len(s) - Len(sub)) :
     \A j \in 1..Len(sub) : s[i + j] = sub[j]

\* item.split(',')[0] when ',' in item, else item
KittenOf(item) ==
  IF \E i \in DOMAIN item : item[i] = ","
  THEN LET c == CHOOSE i \in DOMAIN item :
                   item[i] = "," /\ \A j \in 1..(i - 1) : item[j] # ","
       IN  SubSeq(item, 1, c - 1)
  ELSE item

\* re.compile('^%s' % filter).search(kitten), for a filter without
\* metacharacters: kitten starts with filter
ReFilterSearch(filter, kitten) ==
  /\ Len(filter) <= Len(kitten)
  /\ SubSeq(kitten, 1, Len(filter)) = filter

Digits == {"0", "1", "2", "3", "4", "5", "6", "7", "8", "9"}

BugPrefix == <<"b","u","i","l","d","b","o","t",".","t","a","c",".","b","u","g">>

\* re.match("^buildbot.tac.bug(\d+)$", tac): each of the two dots of the
\* pattern matches any character but a newline, and $ matches at the end
\* of the string or just before a newline that ends the string
MatchBug(tac) ==
  LET p == Len(BugPrefix)
      n == IF Len(tac) > 0 /\ tac[Len(tac)] = "\n" THEN Len(tac) - 1 ELSE Len(tac)
      digitsTo(m) == /\ m > p
                     /\ \A i \in (p + 1)..m : tac[i] \in Digits
  IN  /\ Len(tac) > p
      /\ \A i \in 1..p : IF BugPrefix[i] = "." THEN tac[i] # "\n"
                                                ELSE tac[i] = BugPrefix[i]
      /\ digitsTo(Len(tac)) \/ digitsTo(n)

\* ------------------------------------------------------------ time, cache
\* ts.strftime('%Y-%m-%dT%H:%M:%S'): whole seconds
Strftime(ts) == ts \div TicksPerSec

\* datetime.strptime(s, '%Y-%m-%dT%H:%M:%S')
Strptime(secs) == secs * TicksPerSec

\* the elapsed seconds rounded up instead of cut off
ElapsedSecondsUp(t, ts) == (t - ts + TicksPerSec - 1) \div TicksPerSec

\* (elapsed.days * 86400) + elapsed.seconds, for elapsed = t - ts
ElapsedSeconds(t, ts) == (t - ts) \div TicksPerSec

\* d[k] = v on a dict
DictPut(d, k, v) == [x \in (DOMAIN d) \cup {k} |-> IF x = k THEN v ELSE d[x]]

EmptyDict == [x \in {} |-> 0]

\* the cache file is a sequence of lines <<kitten, seconds>>; times[i] is
\* what datetime.now() returns when line i is read (137)
RECURSIVE loadCacheFrom(_, _, _, _)
loadCacheFrom(file, i, times, result) ==
  IF i > Len(file) THEN result
  ELSE LET kitten == file[i][1]
           ts == Strptime(file[i][2])
       IN  loadCacheFrom(file, i + 1, times,
              IF ElapsedSeconds(times[i], ts) <= RetentionSecs
              THEN DictPut(result, kitten, ts) ELSE result)

loadCache(file, times) == loadCacheFrom(file, 1, times, EmptyDict)

\* the clock readings n successive calls of datetime.now() can return,
\* starting at t and with at most budget ticks passing
ClockReadings(t, n, budget) ==
  { r \in [1..n -> t..(t + budget)] : \A a, b \in 1..n : a <= b => r[a] <= r[b] }

\* the files writeCache can produce: one line per key, in any key order
writeCacheFiles(cache) ==
  LET n == Cardinality(DOMAIN cache)
  IN  { [i \in 1..n |-> <<f[i], Strftime(cache[f[i]])>>] :
           f \in { g \in [1..n -> DOMAIN cache] :
                      \A a, b \in 1..n : g[a] = g[b] => a = b } }

\* ------------------------------------------------- checkKitten (70-118)
tegra == <<"t","e","g","r","a">>
BuildbotTac == <<"b","u","i","l","d","b","o","t",".","t","a","c">>

\* the test as an equality instead of a substring test
IsTegraExact(hostname) == hostname = tegra

\* 'tegra' in hostname
IsTegra(hostname) == Contains(tegra, hostname)

\* "phrase" in data
InData(phrase, data) == phrase \in Range(data)

\* a poll test that takes any text for the end of the shutdown
PollMatchesAny(data) == TRUE

\* not data or "Main loop terminated" in data or "ProcessExitedAlready" in data
PollMatches(data) ==
  \/ data = <<>>
  \/ InData("Main loop terminated", data)
  \/ InData("ProcessExitedAlready", data)

\* giving up one iteration early
GiveUpEarly(count) == count >= GiveUpCount - 1

\* count >= 30
GiveUp(count) == count >= GiveUpCount

\* the result of one run of checkKitten: the remote operations issued, in
\* order, the branch on which it returned and the final loop counter
Ran(ops, outcome, count) == [ops |-> ops, outcome |-> outcome, count |-> count]

\* the while loop; env.tails[k] is the text returned by the k-th
\* tail_twistd_log call made inside the loop
RECURSIVE PollShutdown(_, _, _)
PollShutdown(count0, env, ops) ==
  LET count == count0 + 1
  IN  IF GiveUp(count)
      THEN Ran(Append(ops, "tail_twistd_log(10)"), "timeout", count)
      ELSE IF PollMatches(env.tails[count])
           THEN Ran(ops \o <<"tail_twistd_log(5)", "reboot">>, "reboot", count)
           ELSE PollShutdown(count, env, Append(ops, "tail_twistd_log(5)"))

\* lines 81-118, after the classification
AfterClassify(env, ops) ==
  LET ops2 == Append(ops, "find_buildbot_tacfiles")
      ops3 == Append(ops2, "tail_twistd_log(10)")
      ops4 == Append(ops3, "graceful_shutdown")
  IN  IF BuildbotTac \notin env.tacfiles
      THEN IF \E tac \in env.tacfiles : MatchBug(tac)
           THEN Ran(ops2, "disabled_by_bug", 0)
           ELSE Ran(ops2, "no_marker", 0)
      ELSE IF InData("Stopping factory", env.tail10)
           THEN Ran(Append(ops3, "reboot"), "disconnected", 0)
           ELSE IF ~env.graceful
                THEN Ran(ops4, "shutdown_refused", 0)
                ELSE PollShutdown(0, env, ops4)

\* lines 73-118: the body run when not in dry-run mode
checkKittenLive(hostname, env) ==
  IF ~env.connect
  THEN Ran(<<"connect">>, "unreachable", 0)
  ELSE AfterClassify(env,
         IF IsTegra(hostname) THEN <<"connect", "reboot">>
                              ELSE <<"connect", "wait">>)

\* checkKitten without the dry-run test
checkKittenAlways(hostname, options, env) == checkKittenLive(hostname, env)

checkKitten(hostname, options, env) ==
  IF ~options.dryrun
  THEN checkKittenLive(hostname, env)
  ELSE Ran(<<>>, "dryrun", 0)

\* ------------------------------------------------ the remote environment
Busy == <<"Running buildstep">>

\* texts a poll can return that end the wait
MatchTexts == { <<>>, <<"Main loop terminated">>,
                <<"Running buildstep", "ProcessExitedAlready">> }

\* the loop's fetches: text m at fetch k, Busy at every other fetch
TailsWith(k, m) == [i \in 1..GiveUpCount |-> IF i = k THEN m ELSE Busy]

\* text m at fetch k and at every later fetch
TailsFrom(k, m) == [i \in 1..GiveUpCount |-> IF i >= k THEN m ELSE Busy]

Env(connect, tacfiles, tail10, graceful, tails) ==
  [connect |-> connect, tacfiles |-> tacfiles, tail10 |-> tail10,
   graceful |-> graceful, tails |-> tails]

TacBug == BugPrefix \o <<"7", "1">>
TacOff == BuildbotTac \o <<".","o","f","f">>
TacNoDigits == BugPrefix

TacOptions == { {}, {TacBug}, {TacOff, TacBug}, {TacOff}, {TacNoDigits},
                {BuildbotTac, TacBug} }

NeverMatch == TailsWith(0, Busy)

\* the first polls of the loop and those where it gives up
EdgePolls == {1, 2, GiveUpCount - 1, GiveUpCount}

\* behaviours of a remote host, one or more per branch of checkKitten
Envs ==
       { Env(FALSE, {BuildbotTac}, Busy, TRUE, NeverMatch) }
  \cup { Env(TRUE, tf, Busy, TRUE, TailsWith(1, <<>>)) : tf \in TacOptions }
  \cup { Env(TRUE, {BuildbotTac}, <<"Stopping factory">>, g, NeverMatch) :
            g \in BOOLEAN }
  \cup { Env(TRUE, {BuildbotTac}, Busy, FALSE, TailsWith(1, <<>>)) }
  \cup { Env(TRUE, {BuildbotTac}, Busy, TRUE, TailsWith(k, <<>>)) :
            k \in 0..GiveUpCount }
  \cup { Env(TRUE, {BuildbotTac}, Busy, TRUE, TailsWith(k, m)) :
            k \in EdgePolls, m \in MatchTexts }
  \cup { Env(TRUE, {BuildbotTac}, Busy, TRUE, TailsFrom(k, <<>>)) :
            k \in EdgePolls }

\* ------------------------------------------------------------ the inputs
tegra1 == <<"t","e","g","r","a","1">>
w1 == <<"w","1">>
w2 == <<"w","2">>
wd == <<"w","d">>
wn == <<"w","n">>
u9 == <<"u","9">>

\* the slavealloc list as fetched (notes may be null)
Item(name, enabled, notes) == [name |-> name, enabled |-> enabled, notes |-> notes]

SlaveList == << Item(tegra1, TRUE, <<>>), Item(w1, TRUE, None), Item(w2, TRUE, <<>>),
                Item(wd, FALSE, None), Item(wn, TRUE, <<"r","m","a">>) >>

Hosts == {SlaveList[i].name : i \in DOMAIN SlaveList}

Yes(h) == h \o <<",","Y","e","s">>
No(h) == h \o <<",","N","o">>

\* the lines of candidate texts: a disabled host, a repeated host and a
\* host with notes, a name the inventory lacks, the empty text, a text that
\* ends with a newline
KittenLists == { <<>>,
                 <<Yes(w1), tegra1, wd>>,
                 <<w2, w2, wn, tegra1>>,
                 <<w1, u9, w2>>,
                 <<No(tegra1), w1>>,
                 <<Yes(w2), <<>> >> }

\* cache files: none, and one with an entry just inside the window (3600
\* whole seconds after dropping the fraction), one just outside, one recent,
\* one of a host that has notes
CacheFiles == { <<>>,
                << <<w2, Strftime(Now0) - RetentionSecs>>,
                   <<tegra1, Strftime(Now0) - RetentionSecs - 1>>,
                   <<w1, Strftime(Now0) - 10>>,
                   <<wn, Strftime(Now0) - 20>> >> }

\* the cache files of the pool runs: none, and one with a recent entry and
\* an entry of a host that has notes
PoolCaches == { <<>>,
                << <<w1, Strftime(Now0) - 10>>, <<wn, Strftime(Now0) - 20>> >> }

\* Python's None, for a value that is otherwise a list of lines
NoneList == <<None>>

\* a text made of the given lines, a newline between each two
RECURSIVE JoinLines(_)
JoinLines(lines) ==
  IF Len(lines) = 0 THEN <<>>
  ELSE IF Len(lines) = 1 THEN lines[1]
  ELSE lines[1] \o <<"\n">> \o JoinLines(Tail(lines))

\* where the first newline of a text is, 0 when it has none
FirstNewline(text) ==
  IF \A i \in DOMAIN text : text[i] # "\n" THEN 0
  ELSE CHOOSE k \in DOMAIN text :
         text[k] = "\n" /\ \A j \in 1..(k - 1) : text[j] # "\n"

\* text.split('\n'): at least one item, the empty one for the empty text
RECURSIVE SplitLines(_)
SplitLines(text) ==
  LET k == FirstNewline(text)
  IN  IF k = 0 THEN <<text>>
      ELSE <<SubSeq(text, 1, k - 1)>> \o SplitLines(SubSeq(text, k + 1, Len(text)))

\* file.readlines(): every line with its newline, none for the empty text
RECURSIVE ReadLines(_)
ReadLines(text) ==
  LET k == FirstNewline(text)
  IN  IF Len(text) = 0 THEN <<>>
      ELSE IF k = 0 THEN <<text>>
      ELSE <<SubSeq(text, 1, k)>> \o ReadLines(SubSeq(text, k + 1, Len(text)))

\* what the candidate source yields: a url or a file, whether the fetch
\* returns something (the file exists), and the text it holds
Source(kind, ok, text) == [kind |-> kind, ok |-> ok, text |-> text]

\* what the inventory fetch yields
SlaveAlloc(ok, list) == [ok |-> ok, list |-> list]

\* the text of a candidate file, every line ended by a newline
FileText == Yes(w1) \o <<"\n">> \o w2 \o <<"\n">>

\* a cache file with two lines at the edge of the window
EdgeFile == << <<w1, Strftime(Now0) - RetentionSecs>>,
               <<w2, Strftime(Now0) - RetentionSecs>> >>

\* a cache file with two lines for one host, the older one last
DupFile == << <<w1, Strftime(Now0) - 10>>, <<w1, Strftime(Now0) - 30>> >>

\* a cache file with a line that has no timestamp
MalformedFile == << <<w1, Strftime(Now0) - 10>>, <<w2>> >>

Options(workers, dryrun, force, filter) ==
  [workers |-> workers, dryrun |-> dryrun, force |-> force, filter |-> filter]

\* how each host answers in the pool runs
PoolRemote ==
  [h \in Hosts |->
     IF h = tegra1 THEN Env(FALSE, {}, Busy, FALSE, NeverMatch)
     ELSE IF h = w1 THEN Env(TRUE, {BuildbotTac}, Busy, TRUE, TailsWith(2, <<>>))
     ELSE IF h = w2 THEN Env(TRUE, {BuildbotTac}, <<"Stopping factory">>, TRUE, NeverMatch)
     ELSE Env(FALSE, {}, Busy, FALSE, NeverMatch)]

\* ------------------------------------------------------------- the state
VARIABLES options, source, slavealloc, remote, file0, isfile0, cachefile, now, ticks,
          mainpc, kittens, slaves, seenCache, idx, results, workers,
          workQueue, resultQueue, workBuffer, resultBuffer,
          wpc, wjob, wrun, wake, hung,
          loaded, submitted, enqAt, dequeued, ran, reported, received,
          loadedAt, recvAt, fileReads, fileWrites

vars == <<options, source, slavealloc, remote, file0, isfile0, cachefile, now, ticks,
          mainpc, kittens, slaves, seenCache, idx, results, workers,
          workQueue, resultQueue, workBuffer, resultBuffer,
          wpc, wjob, wrun, wake, hung,
          loaded, submitted, enqAt, dequeued, ran, reported, received,
          loadedAt, recvAt, fileReads, fileWrites>>

\* file0 is the cache file as the run found it, isfile0 whether there was
\* one (os.path.isfile, line 133); a file that does not exist has no lines
inputs == <<options, source, slavealloc, remote, file0, isfile0>>
mainvars == <<mainpc, slaves, seenCache, idx, results, workers>>
\* what put() has buffered in the putting process and its feeder thread
\* has not yet written to the pipe of the queue: main's puts on the work
\* queue (234), each worker's puts on the result queue (129)
feeders == <<workBuffer, resultBuffer>>
\* wake[w] is when the sleep of worker w ends (118)
workervars == <<wpc, wjob, wrun, wake>>
history == <<loaded, submitted, enqAt, dequeued, ran, reported, received>>
\* when each cache line was read, when each result was received, how often the
\* cache file was read and written
audit == <<loadedAt, recvAt, fileReads, fileWrites>>

\* worker processes that can exist: range(1, options.workers)
WorkerIds(n) == 1..(n - 1)

NotRun == Ran(<<>>, "none", 0)

InitState ==
  /\ now = Now0
  /\ ticks = 0
  /\ mainpc = "start"
  /\ kittens = NoneList
  /\ file0 = cachefile
  /\ cachefile # <<>> => isfile0
  /\ hung = {}
  /\ loadedAt = <<>>
  /\ recvAt = EmptyDict
  /\ fileReads = 0
  /\ fileWrites = 0
  /\ slaves = EmptyDict
  /\ seenCache = EmptyDict
  /\ idx = 0
  /\ results = <<>>
  /\ workers = {}
  /\ workQueue = <<>>
  /\ resultQueue = <<>>
  /\ workBuffer = <<>>
  /\ resultBuffer = [w \in WorkerIds(options.workers) |-> <<>>]
  /\ wpc = [w \in WorkerIds(options.workers) |-> "unborn"]
  /\ wjob = [w \in WorkerIds(options.workers) |-> None]
  /\ wrun = [w \in WorkerIds(options.workers) |-> NotRun]
  /\ wake = [w \in WorkerIds(options.workers) |-> 0]
  /\ loaded = EmptyDict
  /\ submitted = <<>>
  /\ enqAt = {}
  /\ dequeued = EmptyBag
  /\ ran = EmptyBag
  /\ reported = EmptyBag
  /\ received = EmptyBag

\* the flags of the pool runs: <<dryrun, force, filter>>
PoolFlags == { <<FALSE, FALSE, None>>, <<FALSE, TRUE, None>>, <<FALSE, FALSE, <<"w">> >>,
               <<TRUE, FALSE, None>> }

\* runs of the pool: every worker count on a few candidate lists
InitPool ==
  /\ options \in { Options(n, x[1], x[2], x[3]) : n \in 1..MaxWorkers, x \in PoolFlags }
  /\ source \in { Source("url", TRUE, JoinLines(l)) : l \in KittenLists }
  /\ slavealloc = SlaveAlloc(TRUE, SlaveList)
  /\ cachefile \in PoolCaches
  /\ isfile0 = (cachefile # <<>>)
  /\ remote = PoolRemote

\* runs of one host, over every behaviour of the remote side
InitOne ==
  /\ options = Options(2, FALSE, FALSE, None)
  /\ cachefile = <<>>
  /\ isfile0 = FALSE
  /\ slavealloc = SlaveAlloc(TRUE, SlaveList)
  /\ \E h \in {tegra1, w1}, e \in Envs :
        /\ source = Source("url", TRUE, h)
        /\ remote = [PoolRemote EXCEPT ![h] = e]

\* runs in which a fetch fails, the candidate file is missing or the cache
\* file is malformed, and runs on a candidate file
InitFaults ==
  /\ options \in { Options(n, FALSE, f, None) : n \in 1..MaxWorkers, f \in BOOLEAN }
  /\ remote = PoolRemote
  /\ \/ /\ slavealloc = SlaveAlloc(FALSE, <<>>)
        /\ source = Source("url", TRUE, JoinLines(<<w1, w2>>))
        /\ cachefile \in CacheFiles
        /\ isfile0 = (cachefile # <<>>)
     \/ /\ slavealloc = SlaveAlloc(TRUE, SlaveList)
        /\ source = Source("url", TRUE, JoinLines(<<w1, w2>>))
        /\ cachefile = MalformedFile
        /\ isfile0 = TRUE
     \/ /\ slavealloc = SlaveAlloc(TRUE, SlaveList)
        /\ source \in { Source("url", FALSE, <<>>), Source("file", FALSE, <<>>),
                        Source("file", TRUE, FileText), Source("file", TRUE, <<>>) }
        /\ cachefile \in CacheFiles \cup {DupFile}
        /\ isfile0 \in BOOLEAN

\* runs of two hosts on cache files with entries at the edge of the window
InitCache ==
  /\ options \in { Options(2, FALSE, f, None) : f \in BOOLEAN }
  /\ remote = PoolRemote
  /\ slavealloc = SlaveAlloc(TRUE, SlaveList)
  /\ source = Source("url", TRUE, JoinLines(<<tegra1, w2>>))
  /\ cachefile \in CacheFiles \cup {DupFile, EdgeFile}
  /\ isfile0 \in BOOLEAN

Init == (InitPool \/ InitOne \/ InitFaults \/ InitCache) /\ InitState

\* ------------------------------------------------ main process (153-261)
\* lines 175-180: the inventory as a dict by name, null notes made ''
slavesOf(slavelist) ==
  [n \in {slavelist[i].name : i \in DOMAIN slavelist} |->
     LET last == CHOOSE i \in DOMAIN slavelist :
                    /\ slavelist[i].name = n
                    /\ \A j \in DOMAIN slavelist : slavelist[j].name = n => j <= i
         item == slavelist[last]
     IN  [item EXCEPT !.notes = IF item.notes = None THEN <<>> ELSE item.notes]]

\* lines 211-217: the name of a candidate line, None when the filter
\* pattern rejects it
FilteredKitten(item, opts) ==
  LET kitten == KittenOf(item)
  IN  IF opts.filter # None /\ ~ReFilterSearch(opts.filter, kitten)
      THEN None ELSE kitten

\* Verdict that skips a name the inventory lacks
VerdictSkipUnknown(kitten, inv, cache, opts) ==
  IF kitten = None THEN "skip"
  ELSE IF kitten \notin DOMAIN inv THEN "skip"
  ELSE IF ~inv[kitten].enabled THEN "skip"
  ELSE IF Len(inv[kitten].notes) > 0 THEN "skip"
  ELSE IF kitten \in DOMAIN cache /\ ~opts.force THEN "skip"
  ELSE "put"

\* Verdict without the notes test
VerdictNoNotes(kitten, inv, cache, opts) ==
  IF kitten = None THEN "skip"
  ELSE IF kitten \notin DOMAIN inv THEN "KeyError"
  ELSE IF ~inv[kitten].enabled THEN "skip"
  ELSE IF kitten \in DOMAIN cache /\ ~opts.force THEN "skip"
  ELSE "put"

\* Verdict that skips a cached host even when forced
VerdictNoForce(kitten, inv, cache, opts) ==
  IF kitten = None THEN "skip"
  ELSE IF kitten \notin DOMAIN inv THEN "KeyError"
  ELSE IF ~inv[kitten].enabled THEN "skip"
  ELSE IF Len(inv[kitten].notes) > 0 THEN "skip"
  ELSE IF kitten \in DOMAIN cache THEN "skip"
  ELSE "put"

\* lines 222-236: what the loop body does with a candidate
Verdict(kitten, inv, cache, opts) ==
  IF kitten = None THEN "skip"
  ELSE IF kitten \notin DOMAIN inv THEN "KeyError"
  ELSE IF ~inv[kitten].enabled THEN "skip"
  ELSE IF Len(inv[kitten].notes) > 0 THEN "skip"
  ELSE IF kitten \in DOMAIN cache /\ ~opts.force THEN "skip"
  ELSE "put"

\* a remove that drops every occurrence
RemoveAll(s, x) == SelectSeq(s, LAMBDA e : e # x)

\* list.remove(x): drops the first occurrence
RemoveFirst(s, x) ==
  LET i == CHOOSE k \in DOMAIN s : s[k] = x /\ \A j \in 1..(k - 1) : s[j] # x
  IN  SubSeq(s, 1, i - 1) \o SubSeq(s, i + 1, Len(s))

\* line 135: a line that does not split into a name and a timestamp
Malformed(file) == \E i \in DOMAIN file : Len(file[i]) # 2

\* fetchKittens that treats a url that returns nothing like a missing file
fetchKittensNone(src) ==
  IF ~src.ok THEN NoneList
  ELSE IF src.kind = "url" THEN SplitLines(src.text) ELSE ReadLines(src.text)

\* lines 183-195: the candidate lines; a url that returns nothing gives
\* the empty list, a file that does not exist leaves None
fetchKittens(src) ==
  IF src.kind = "url"
  THEN IF src.ok THEN SplitLines(src.text) ELSE <<>>
  ELSE IF src.ok THEN ReadLines(src.text) ELSE NoneList

\* lines 134-137: the lines of the file for which the clock is read, those
\* before the first line that does not split
ReadableLines(file) ==
  IF Malformed(file)
  THEN (CHOOSE i \in DOMAIN file :
          Len(file[i]) # 2 /\ \A j \in 1..(i - 1) : Len(file[j]) = 2) - 1
  ELSE Len(file)

\* lines 174-195: fetch the inventory, load the cache, fetch the candidates;
\* a failed inventory fetch (line 176) and a malformed cache line (line
\* 135) raise and end the program; the cache file is opened only when it
\* exists (133); the clock is read once for each cache line (137) and may
\* move on between two readings
Startup ==
  /\ mainpc = "start"
  /\ IF ~slavealloc.ok
     THEN /\ mainpc' = "aborted"
          /\ UNCHANGED <<slaves, seenCache, loaded, loadedAt, fileReads, kittens,
                         now, ticks>>
     ELSE /\ slaves' = slavesOf(slavealloc.list)
          /\ fileReads' = IF isfile0 THEN fileReads + 1 ELSE fileReads
          /\ \E times \in ClockReadings(now, ReadableLines(cachefile), MaxTicks - ticks) :
                /\ loadedAt' = times
                /\ now' = IF Len(times) = 0 THEN now ELSE times[Len(times)]
                /\ ticks' = ticks + (now' - now)
                /\ IF Malformed(cachefile)
                   THEN /\ mainpc' = "aborted"
                        /\ UNCHANGED <<seenCache, loaded, kittens>>
                   ELSE /\ seenCache' = loadCache(cachefile, times)
                        /\ loaded' = loadCache(cachefile, times)
                        /\ kittens' = fetchKittens(source)
                        /\ mainpc' = IF kittens' = NoneList THEN "write" ELSE "spawn"
  /\ UNCHANGED <<inputs, feeders, cachefile, idx, results, workers, hung,
                 workQueue, resultQueue, workervars, recvAt, fileWrites,
                 submitted, enqAt, dequeued, ran, reported, received>>

\* lines 197-203: start range(1, options.workers) worker processes
SpawnWorkers ==
  /\ mainpc = "spawn"
  /\ workers' = WorkerIds(options.workers)
  /\ wpc' = [w \in DOMAIN wpc |-> "idle"]
  /\ results' = <<>>
  /\ idx' = 1
  /\ mainpc' = IF Len(kittens) = 0 THEN "wait" ELSE "filter"
  /\ UNCHANGED <<inputs, feeders, kittens, hung, audit, cachefile, now, ticks, slaves, seenCache,
                 workQueue, resultQueue, wjob, wrun, wake, history>>

\* FilterItem that skips a host it has already enqueued in this run
FilterItemDedup ==
  /\ mainpc = "filter"
  /\ LET kitten == FilteredKitten(kittens[idx], options)
         verdict0 == Verdict(kitten, slaves, seenCache, options)
         verdict == IF verdict0 = "put" /\ kitten \in Range(results)
                    THEN "skip" ELSE verdict0
     IN  /\ mainpc' = IF verdict = "KeyError" THEN "crashed"
                      ELSE IF idx = Len(kittens) THEN "wait" ELSE "filter"
         /\ idx' = IF verdict = "KeyError" THEN idx ELSE idx + 1
         /\ workBuffer' = IF verdict = "put" THEN Append(workBuffer, kitten) ELSE workBuffer
         /\ results' = IF verdict = "put" THEN Append(results, kitten) ELSE results
         /\ submitted' = IF verdict = "put" THEN Append(submitted, kitten) ELSE submitted
         /\ enqAt' = IF verdict = "put" THEN enqAt \cup {idx} ELSE enqAt
  /\ UNCHANGED <<inputs, resultBuffer, kittens, hung, audit, cachefile, now, ticks, slaves, seenCache, workers,
                 workQueue, resultQueue, workervars, loaded, dequeued, ran, reported, received>>

\* lines 209-236: one iteration of the loop over the candidate lines
FilterItem ==
  /\ mainpc = "filter"
  /\ LET kitten == FilteredKitten(kittens[idx], options)
         verdict == Verdict(kitten, slaves, seenCache, options)
     IN  /\ mainpc' = IF verdict = "KeyError" THEN "crashed"
                      ELSE IF idx = Len(kittens) THEN "wait" ELSE "filter"
         /\ idx' = IF verdict = "KeyError" THEN idx ELSE idx + 1
         /\ workBuffer' = IF verdict = "put" THEN Append(workBuffer, kitten) ELSE workBuffer
         /\ results' = IF verdict = "put" THEN Append(results, kitten) ELSE results
         /\ submitted' = IF verdict = "put" THEN Append(submitted, kitten) ELSE submitted
         /\ enqAt' = IF verdict = "put" THEN enqAt \cup {idx} ELSE enqAt
  /\ UNCHANGED <<inputs, resultBuffer, kittens, hung, audit, cachefile, now, ticks, slaves, seenCache, workers,
                 workQueue, resultQueue, workervars, loaded, dequeued, ran, reported, received>>

\* MainGetResult that forgets to mark the host seen
MainGetResultNoMark ==
  /\ mainpc = "wait"
  /\ Len(results) > 0
  /\ resultQueue # <<>>
  /\ LET result == Head(resultQueue)
     IN  /\ resultQueue' = Tail(resultQueue)
         /\ recvAt' = DictPut(recvAt, result, now)
         /\ received' = received (+) SetToBag({result})
         /\ IF result \in Range(results)
            THEN results' = RemoveFirst(results, result)
            ELSE UNCHANGED results
  /\ UNCHANGED <<inputs, feeders, kittens, hung, loadedAt, fileReads, fileWrites, cachefile, now, ticks, mainpc, slaves, seenCache, idx, workers,
                 workQueue, workervars, loaded, submitted, enqAt, dequeued, ran, reported>>

\* MainGetResult that writes the cache file after each result
MainGetResultFlush ==
  /\ mainpc = "wait"
  /\ Len(results) > 0
  /\ resultQueue # <<>>
  /\ LET result == Head(resultQueue)
     IN  /\ resultQueue' = Tail(resultQueue)
         /\ recvAt' = DictPut(recvAt, result, now)
         /\ received' = received (+) SetToBag({result})
         /\ results' = RemoveFirst(results, result)
         /\ seenCache' = DictPut(seenCache, result, now)
         /\ cachefile' \in writeCacheFiles(seenCache')
         /\ fileWrites' = fileWrites + 1
  /\ UNCHANGED <<inputs, feeders, kittens, hung, loadedAt, fileReads, now, ticks, mainpc, slaves, idx, workers,
                 workQueue, workervars, loaded, submitted, enqAt, dequeued, ran, reported>>

\* lines 240-249: one iteration that finds a result on the queue (an
\* iteration that finds the queue empty changes nothing)
MainGetResult ==
  /\ mainpc = "wait"
  /\ Len(results) > 0
  /\ resultQueue # <<>>
  /\ LET result == Head(resultQueue)
     IN  /\ resultQueue' = Tail(resultQueue)
         /\ recvAt' = DictPut(recvAt, result, now)
         /\ received' = received (+) SetToBag({result})
         /\ IF result \in Range(results)
            THEN /\ results' = RemoveFirst(results, result)
                 /\ seenCache' = DictPut(seenCache, result, now)
            ELSE UNCHANGED <<results, seenCache>>
  /\ UNCHANGED <<inputs, feeders, kittens, hung, loadedAt, fileReads, fileWrites, cachefile, now, ticks, mainpc, slaves, idx, workers,
                 workQueue, workervars, loaded, submitted, enqAt, dequeued, ran, reported>>

\* Teardown that waits for an empty result queue instead of an empty
\* outstanding list
TeardownEarly ==
  /\ mainpc = "wait"
  /\ resultQueue = <<>>
  /\ workers' = {}
  /\ mainpc' = "write"
  /\ UNCHANGED <<inputs, feeders, kittens, hung, audit, cachefile, now, ticks, slaves, seenCache, idx, results,
                 workQueue, resultQueue, workervars, history>>

\* lines 240, 251-257: the loop ends, every worker is terminated and joined
Teardown ==
  /\ mainpc = "wait"
  /\ Len(results) = 0
  /\ workers' = {}
  /\ mainpc' = "write"
  /\ UNCHANGED <<inputs, feeders, kittens, hung, audit, cachefile, now, ticks, slaves, seenCache, idx, results,
                 workQueue, resultQueue, workervars, history>>

\* line 259
WriteCache ==
  /\ mainpc = "write"
  /\ cachefile' \in writeCacheFiles(seenCache)
  /\ mainpc' = "finished"
  /\ fileWrites' = fileWrites + 1
  /\ UNCHANGED <<inputs, feeders, kittens, hung, loadedAt, recvAt, fileReads, now, ticks, slaves, seenCache, idx, results, workers,
                 workQueue, resultQueue, workervars, history>>

\* --------------------------------------- worker process (120-129)
\* Dequeue that leaves the job on the queue
DequeuePeek(w) ==
  /\ w \in workers
  /\ wpc[w] = "idle"
  /\ workQueue # <<>>
  /\ wjob' = [wjob EXCEPT ![w] = Head(workQueue)]
  /\ wpc' = [wpc EXCEPT ![w] = "got"]
  /\ wrun' = [wrun EXCEPT ![w] = NotRun]
  /\ dequeued' = dequeued (+) SetToBag({Head(workQueue)})
  /\ UNCHANGED <<inputs, feeders, kittens, hung, wake, audit, cachefile, now, ticks, mainvars, workQueue, resultQueue,
                 loaded, submitted, enqAt, ran, reported, received>>

\* Dequeue in which only the first worker takes jobs
DequeueFirstOnly(w) ==
  /\ w = 1
  /\ w \in workers
  /\ wpc[w] = "idle"
  /\ workQueue # <<>>
  /\ wjob' = [wjob EXCEPT ![w] = Head(workQueue)]
  /\ workQueue' = Tail(workQueue)
  /\ wpc' = [wpc EXCEPT ![w] = "got"]
  /\ wrun' = [wrun EXCEPT ![w] = NotRun]
  /\ dequeued' = dequeued (+) SetToBag({Head(workQueue)})
  /\ UNCHANGED <<inputs, feeders, kittens, hung, wake, audit, cachefile, now, ticks, mainvars, resultQueue,
                 loaded, submitted, enqAt, ran, reported, received>>

\* line 123, when the queue holds a job (otherwise the loop spins)
Dequeue(w) ==
  /\ w \in workers
  /\ wpc[w] = "idle"
  /\ workQueue # <<>>
  /\ wjob' = [wjob EXCEPT ![w] = Head(workQueue)]
  /\ workQueue' = Tail(workQueue)
  /\ wpc' = [wpc EXCEPT ![w] = "got"]
  /\ wrun' = [wrun EXCEPT ![w] = NotRun]
  /\ dequeued' = dequeued (+) SetToBag({Head(workQueue)})
  /\ UNCHANGED <<inputs, feeders, kittens, hung, wake, audit, cachefile, now, ticks, mainvars, resultQueue,
                 loaded, submitted, enqAt, ran, reported, received>>

\* the run of checkKitten worker w is in: the remote side answers each
\* call as remote[hostname] says, so the calls follow one after the other
FullRun(w) == checkKitten(wjob[w], options, remote[wjob[w]])

\* lines 110-118: the call at place n of a run is a poll that shows no end
\* of the shutdown, so time.sleep follows it
SleepsAfter(full, n) ==
  /\ full.ops[n] = "tail_twistd_log(5)"
  /\ n < Len(full.ops)
  /\ full.ops[n + 1] # "reboot"

\* lines 75-113: the next remote call of checkKitten is made and returns;
\* the other processes run between two calls
CallRemote(w) ==
  /\ w \in workers
  /\ wpc[w] = "got"
  /\ w \notin hung
  /\ LET full == FullRun(w)
         n == Len(wrun[w].ops) + 1
     IN  /\ n <= Len(full.ops)
         /\ wrun' = [wrun EXCEPT ![w].ops = Append(@, full.ops[n])]
         /\ IF SleepsAfter(full, n)
            THEN /\ wpc' = [wpc EXCEPT ![w] = "sleep"]
                 /\ wake' = [wake EXCEPT ![w] = now + SleepSecs * TicksPerSec]
            ELSE UNCHANGED <<wpc, wake>>
  /\ UNCHANGED <<inputs, feeders, kittens, hung, audit, cachefile, now, ticks, mainvars,
                 workQueue, resultQueue, wjob, history>>

\* line 118: time.sleep(5) returns, not before the five seconds are over
Wake(w) ==
  /\ w \in workers
  /\ wpc[w] = "sleep"
  /\ now' = IF now < wake[w] THEN wake[w] ELSE now
  /\ wpc' = [wpc EXCEPT ![w] = "got"]
  /\ UNCHANGED <<inputs, feeders, kittens, hung, audit, cachefile, ticks, mainvars,
                 workQueue, resultQueue, wjob, wrun, wake, history>>

\* line 128: checkKitten returns, every call of the run made
RunCheckKitten(w) ==
  /\ w \in workers
  /\ wpc[w] = "got"
  /\ w \notin hung
  /\ Len(wrun[w].ops) = Len(FullRun(w).ops)
  /\ wrun' = [wrun EXCEPT ![w] = FullRun(w)]
  /\ wpc' = [wpc EXCEPT ![w] = "checked"]
  /\ ran' = ran (+) SetToBag({wjob[w]})
  /\ UNCHANGED <<inputs, feeders, kittens, hung, wake, audit, cachefile, now, ticks, mainvars, workQueue, resultQueue, wjob,
                 loaded, submitted, enqAt, dequeued, reported, received>>

\* line 129: put() leaves the result in the buffer of the worker's process
\* and returns
PutResult(w) ==
  /\ w \in workers
  /\ wpc[w] = "checked"
  /\ resultBuffer' = [resultBuffer EXCEPT ![w] = Append(@, wjob[w])]
  /\ wpc' = [wpc EXCEPT ![w] = "idle"]
  /\ reported' = reported (+) SetToBag({wjob[w]})
  /\ UNCHANGED <<inputs, workBuffer, kittens, hung, wake, audit, cachefile, now, ticks, mainvars,
                 workQueue, resultQueue, wjob, wrun,
                 loaded, submitted, enqAt, dequeued, ran, received>>

\* line 234: the feeder thread of main writes the oldest buffered job to
\* the pipe of the work queue, where the workers' get() finds it
FeedWork ==
  /\ workBuffer # <<>>
  /\ workQueue' = Append(workQueue, Head(workBuffer))
  /\ workBuffer' = Tail(workBuffer)
  /\ UNCHANGED <<inputs, resultBuffer, kittens, hung, audit, cachefile, now, ticks, mainvars,
                 resultQueue, workervars, history>>

\* line 129: the feeder thread of worker w writes its oldest buffered
\* result to the pipe of the result queue, where main's get() finds it
FeedResult(w) ==
  /\ w \in workers
  /\ resultBuffer[w] # <<>>
  /\ resultQueue' = Append(resultQueue, Head(resultBuffer[w]))
  /\ resultBuffer' = [resultBuffer EXCEPT ![w] = Tail(@)]
  /\ UNCHANGED <<inputs, workBuffer, kittens, hung, audit, cachefile, now, ticks, mainvars,
                 workQueue, workervars, history>>

\* lines 75-113: the next remote call of checkKitten is made and never
\* returns; the calls made before it stay made
Hang(w) ==
  /\ w \in workers
  /\ wpc[w] = "got"
  /\ w \notin hung
  /\ Len(wrun[w].ops) < Len(FullRun(w).ops)
  /\ hung' = hung \cup {w}
  /\ UNCHANGED <<inputs, feeders, kittens, audit, cachefile, now, ticks, mainvars,
                 workQueue, resultQueue, workervars, history>>

\* the clock advances while the processes run: MaxTicks ticks besides the
\* time the workers sleep
Tick ==
  /\ ticks < MaxTicks
  /\ now' = now + 1
  /\ ticks' = ticks + 1
  /\ UNCHANGED <<inputs, feeders, kittens, hung, audit, cachefile, mainvars, workQueue, resultQueue,
                 workervars, history>>

Next ==
  \/ Startup
  \/ SpawnWorkers
  \/ FilterItem
  \/ MainGetResult
  \/ Teardown
  \/ WriteCache
  \/ \E w \in DOMAIN wpc : Dequeue(w)
  \/ \E w \in DOMAIN wpc : CallRemote(w)
  \/ \E w \in DOMAIN wpc : Wake(w)
  \/ \E w \in DOMAIN wpc : RunCheckKitten(w)
  \/ \E w \in DOMAIN wpc : PutResult(w)
  \/ FeedWork
  \/ \E w \in DOMAIN wpc : FeedResult(w)
  \/ Tick

Spec == Init /\ [][Next]_vars

\* the runs in which remote calls may never return
NextHang == Next \/ \E w \in DOMAIN wpc : Hang(w)

\* every process that can take a step eventually takes one
Fairness ==
  /\ WF_vars(Startup) /\ WF_vars(SpawnWorkers) /\ WF_vars(FilterItem)
  /\ WF_vars(MainGetResult) /\ WF_vars(Teardown) /\ WF_vars(WriteCache)
  /\ WF_vars(FeedWork)
  /\ \A w \in WorkerIds(MaxWorkers) :
       /\ WF_vars(Dequeue(w)) /\ WF_vars(CallRemote(w)) /\ WF_vars(Wake(w))
       /\ WF_vars(RunCheckKitten(w)) /\ WF_vars(PutResult(w))
       /\ WF_vars(FeedResult(w))

HangSpec == Init /\ [][NextHang]_vars /\ Fairness

\* every process that can take a step eventually takes one
FairSpec == Spec /\ Fairness

\* ---------------------------------------------------------- properties
SeqToBag(s) == [x \in Range(s) |-> Cardinality({i \in DOMAIN s : s[i] = x})]

\* the jobs held by workers whose loop is at one of the given places
HeldAt(pcs) == {w \in DOMAIN wpc : wpc[w] \in pcs}

HeldBag(pcs) ==
  [x \in {wjob[w] : w \in HeldAt(pcs)} |->
     Cardinality({w \in HeldAt(pcs) : wjob[w] = x})]

\* the places of a worker inside checkKitten
Inside == {"got", "sleep"}

\* the jobs put on the work queue and not yet taken, oldest first
WorkChannel == workQueue \o workBuffer

\* the results still in the buffers of the given workers
RECURSIVE BufferedFrom(_)
BufferedFrom(ws) ==
  IF ws = {} THEN EmptyBag
  ELSE LET w == CHOOSE x \in ws : TRUE
       IN  SeqToBag(resultBuffer[w]) (+) BufferedFrom(ws \ {w})

\* the results put on the result queue and not yet taken by main
ResultChannel == SeqToBag(resultQueue) (+) BufferedFrom(DOMAIN resultBuffer)

MainDone == mainpc \in {"write", "finished"}

\* C1: a job put on the work queue is taken by one worker only, run through
\* checkKitten once and put on the result queue once: per identifier, never
\* more dequeues than puts on the work queue, every dequeued job is held by
\* one worker or has been run, every run job is about to be or has been
\* put on the result queue, main never receives more than was reported;
\* when main leaves its result loop all five counts equal what it submitted.
C1_ExactlyOnce ==
  /\ dequeued (+) SeqToBag(WorkChannel) = SeqToBag(submitted)
  /\ dequeued = ran (+) HeldBag(Inside)
  /\ ran = reported (+) HeldBag({"checked"})
  /\ reported = received (+) ResultChannel
  /\ MainDone => /\ dequeued = SeqToBag(submitted)
                 /\ ran = SeqToBag(submitted)
                 /\ reported = SeqToBag(submitted)
                 /\ received = SeqToBag(submitted)

\* a run that ended after two workers shared three jobs, two of them for
\* the same identifier
C1_Witness ==
  /\ mainpc = "finished"
  /\ Len(submitted) = 3
  /\ \E h \in Range(submitted) : CopiesIn(h, received) = 2
  /\ \E a, b \in DOMAIN wrun :
        a # b /\ wrun[a].outcome # "none" /\ wrun[b].outcome # "none"

\* C2: under fair scheduling, for every worker count W >= 1, once the
\* candidates are filtered the run ends: the outstanding list is empty, no
\* worker is left running and the cache has been written.
C2_EventuallyTerminates ==
  (mainpc = "wait") ~> (mainpc = "finished" /\ results = <<>> /\ workers = {})

\* the inventory record of a host, as fetched, forbids dispatching it
Barred(h) ==
  \E i \in DOMAIN SlaveList :
     /\ SlaveList[i].name = h
     /\ \/ ~SlaveList[i].enabled
        \/ SlaveList[i].notes # None /\ SlaveList[i].notes # <<>>

\* every identifier that is or was on the work queue or in a worker's hands
Dispatched ==
  Range(WorkChannel) \cup Range(submitted) \cup BagToSet(dequeued)
    \cup {wjob[w] : w \in HeldAt(Inside \cup {"checked"})}

\* C3: a host that is disabled or has notes is never on the work queue and
\* never reaches a worker, whatever the filter, the force flag and the cache.
C3_BarredNeverDispatched == \A h \in Dispatched : ~Barred(h)

\* the loop has passed a cached host with notes under --force and has
\* enqueued some other host
C3_Witness ==
  /\ options.force
  /\ \E i \in 1..(idx - 1) :
        /\ KittenOf(kittens[i]) = wn
        /\ wn \in DOMAIN loaded
  /\ submitted # <<>>

\* candidate i names a host that is enabled, has no notes and matches the
\* filter pattern
Eligible(i) ==
  LET k == KittenOf(kittens[i])
  IN  /\ \E j \in DOMAIN SlaveList : SlaveList[j].name = k
      /\ ~Barred(k)
      /\ options.filter # None => ReFilterSearch(options.filter, k)

\* the names a pass over the first n candidates accepts, given a cache
RECURSIVE Accepted(_, _)
Accepted(n, cache) ==
  IF n = 0 THEN <<>>
  ELSE LET k == KittenOf(kittens[n])
       IN  IF Eligible(n) /\ (options.force \/ k \notin DOMAIN cache)
           THEN Append(Accepted(n - 1, cache), k)
           ELSE Accepted(n - 1, cache)

\* C4: an eligible candidate found in the loaded cache is enqueued exactly
\* when force is set, one not in the cache is enqueued regardless; the
\* filter leaves cache and inventory as they were loaded, and what it has
\* accepted is what a pass over the same candidates accepts from them.
C4_ForceAndCache ==
  /\ \A i \in 1..(idx - 1) :
        Eligible(i) =>
          (i \in enqAt <=>
             (options.force \/ KittenOf(kittens[i]) \notin DOMAIN loaded))
  /\ mainpc \in {"filter", "crashed"} =>
        /\ seenCache = loaded
        /\ slaves = slavesOf(SlaveList)
  /\ idx >= 1 => submitted = Accepted(idx - 1, loaded)

\* the filter has enqueued a cached host because force is set
C4_Witness ==
  /\ options.force
  /\ mainpc = "wait"
  /\ \E i \in enqAt : KittenOf(kittens[i]) \in DOMAIN loaded

\* the workers that have run checkKitten on the job they hold or last held
Finished == {w \in DOMAIN wrun : wrun[w].outcome # "none"}

Outcomes == {"unreachable", "disabled_by_bug", "no_marker", "disconnected",
             "shutdown_refused", "timeout", "reboot"}

\* C5: whatever the outcome of checkKitten, the worker reports the job (a
\* job that was run is on its way to, or already on, the result queue),
\* main stamps a host with the current time when it takes its result, and
\* when main is done every submitted host carries a stamp of this run.
C5_EveryOutcomeRecorded ==
  /\ [](/\ ran = reported (+) HeldBag({"checked"})
        /\ \A w \in Finished : wrun[w].outcome \in Outcomes \cup {"dryrun"}
        /\ \A h \in BagToSet(received) :
              h \in DOMAIN seenCache /\ seenCache[h] \in Now0..now
        /\ MainDone => \A h \in Range(submitted) :
              h \in DOMAIN seenCache /\ seenCache[h] \in Now0..now)
  /\ [][\A h \in Hosts :
          CopiesIn(h, received') > CopiesIn(h, received) =>
             h \in DOMAIN seenCache' /\ seenCache'[h] = now]_vars

\* a run has ended in which a host whose shutdown timed out, with no
\* reboot, was stamped after the clock had moved on
C5_Witness ==
  /\ mainpc = "finished"
  /\ \E w \in Finished :
        /\ wrun[w].outcome = "timeout"
        /\ ~IsTegra(wjob[w])
        /\ seenCache[wjob[w]] > Now0

\* C6: for a reachable host with 'tegra' in its name the first operation
\* after connecting is a reboot, and wait is never called.
C6_TegraRebootsAtOnce ==
  \A w \in Finished :
     (/\ ~options.dryrun
      /\ remote[wjob[w]].connect
      /\ Contains(<<"t","e","g","r","a">>, wjob[w]))
     => /\ Len(wrun[w].ops) >= 2
        /\ wrun[w].ops[1] = "connect"
        /\ wrun[w].ops[2] = "reboot"
        /\ "wait" \notin Range(wrun[w].ops)

\* a worker has run a reachable tegra host
C6_Witness ==
  \E w \in Finished :
     /\ wjob[w] = tegra1
     /\ remote[wjob[w]].connect
     /\ Len(wrun[w].ops) >= 2
     /\ wrun[w].ops[2] = "reboot"

\* C7: once a reboot has been issued for a host, no further remote operation
\* is issued for it in that job: a reboot is the last operation of a run.
C7_RebootIsLast ==
  \A w \in Finished :
     \A i \in DOMAIN wrun[w].ops :
        wrun[w].ops[i] = "reboot" => i = Len(wrun[w].ops)

\* the text ends the wait for the shutdown
EndsWait(data) ==
  \/ data = <<>>
  \/ "Main loop terminated" \in Range(data)
  \/ "ProcessExitedAlready" \in Range(data)

Polls == 1..(GiveUpCount - 1)

\* C8: a host without 'tegra' in its name is rebooted only if buildbot.tac
\* was found and either the log tail said "Stopping factory" or the graceful
\* shutdown succeeded and some poll returned an empty text or a termination
\* marker; the outcomes no marker, disabled by bug, refused shutdown and
\* timeout issue no reboot.
C8_RebootOnlyWhenWarranted ==
  \A w \in Finished :
     ~Contains(<<"t","e","g","r","a">>, wjob[w]) =>
        LET e == remote[wjob[w]]
        IN  /\ "reboot" \in Range(wrun[w].ops) =>
                 /\ ~options.dryrun
                 /\ e.connect
                 /\ BuildbotTac \in e.tacfiles
                 /\ \/ "Stopping factory" \in Range(e.tail10)
                    \/ e.graceful /\ \E k \in Polls : EndsWait(e.tails[k])
            /\ wrun[w].outcome \in {"unreachable", "no_marker", "disabled_by_bug",
                                    "shutdown_refused", "timeout", "dryrun"}
                 => "reboot" \notin Range(wrun[w].ops)
            /\ BuildbotTac \notin e.tacfiles => "reboot" \notin Range(wrun[w].ops)
            /\ (BuildbotTac \in e.tacfiles /\ "Stopping factory" \notin Range(e.tail10)
                  /\ ~e.graceful) => "reboot" \notin Range(wrun[w].ops)

\* a host without 'tegra' in its name was rebooted after its third poll
C8_Witness ==
  \E w \in Finished :
     /\ ~Contains(<<"t","e","g","r","a">>, wjob[w])
     /\ wrun[w].outcome = "reboot"
     /\ wrun[w].count = 3

\* the run of worker w entered the poll loop
Polled(w) == "graceful_shutdown" \in Range(wrun[w].ops) /\ remote[wjob[w]].graceful

\* fetch k is the first of the loop's fetches whose text ends the wait
FirstEnd(e, k) == EndsWait(e.tails[k]) /\ \A j \in 1..(k - 1) : ~EndsWait(e.tails[j])

\* C9 as claimed: for every k in 1..30, if the k-th fetched tail is the first
\* that ends the wait a reboot is issued; the timeout is reached only after
\* 30 fetches have all failed to match; the loop ends within 30 iterations.
C9_ThirtyPolls ==
  \A w \in Finished :
     Polled(w) =>
        LET e == remote[wjob[w]]
        IN  /\ \A k \in 1..GiveUpCount :
                 FirstEnd(e, k) => wrun[w].outcome = "reboot"
            /\ wrun[w].outcome = "timeout" =>
                 \A k \in 1..GiveUpCount : ~EndsWait(e.tails[k])
            /\ wrun[w].count <= GiveUpCount

\* C9 as amended: the loop polls at most 29 times; for every k in 1..29, if
\* the k-th poll is the first that ends the wait a reboot is issued in
\* iteration k; the timeout, with no reboot in the loop, is reached in
\* iteration 30 exactly when 29 polls have all failed to match, whatever the
\* last fetch returns; the loop always ends within 30 iterations.
C9_TwentyNinePolls ==
  \A w \in Finished :
     Polled(w) =>
        LET e == remote[wjob[w]]
            r == wrun[w]
            polled == Cardinality({i \in DOMAIN r.ops : r.ops[i] = "tail_twistd_log(5)"})
        IN  /\ \A k \in Polls :
                 FirstEnd(e, k) =>
                    /\ r.outcome = "reboot"
                    /\ r.count = k
                    /\ polled = k
                    /\ r.ops[Len(r.ops)] = "reboot"
            /\ r.outcome = "timeout" <=> \A k \in Polls : ~EndsWait(e.tails[k])
            /\ r.outcome = "timeout" =>
                 /\ r.count = GiveUpCount
                 /\ polled = GiveUpCount - 1
                 /\ r.ops[Len(r.ops)] = "tail_twistd_log(10)"
            /\ r.outcome \in {"reboot", "timeout"}
            /\ r.count \in 1..GiveUpCount

\* a host was rebooted by the 29th and last poll
C9_Witness ==
  \E w \in Finished :
     /\ Polled(w)
     /\ wrun[w].outcome = "reboot"
     /\ wrun[w].count = GiveUpCount - 1

\* C10: in dry-run mode no remote operation is issued, every job that was
\* dequeued is reported without any, and when main is done every submitted
\* host has been reported and stamped in this run.
C10_DryRun ==
  options.dryrun =>
     /\ \A w \in DOMAIN wrun : wrun[w].ops = <<>>
     /\ \A w \in Finished : wrun[w].outcome = "dryrun"
     /\ ran = reported (+) HeldBag({"checked"})
     /\ MainDone =>
          /\ reported = SeqToBag(submitted)
          /\ \A h \in Range(submitted) :
                h \in DOMAIN seenCache /\ seenCache[h] \in Now0..now

\* a dry run has ended with three hosts reported and stamped
C10_Witness ==
  /\ options.dryrun
  /\ mainpc = "finished"
  /\ Len(submitted) = 3
  /\ \A h \in Range(submitted) : h \in DOMAIN seenCache

\* what holds of the writes of the cache file and of the workers' steps:
\* written at most once, and then the outstanding list is empty, every
\* worker terminated and the run finished; written in every finished run;
\* no step of a worker reads or writes the file or changes the cache
WrittenOnceAtEnd ==
  /\ [](/\ fileWrites <= 1
        /\ fileWrites = 1 =>
              /\ results = <<>>
              /\ workers = {}
              /\ mainpc = "finished"
        /\ mainpc = "finished" => fileWrites = 1
        /\ fileWrites = 0 => cachefile = file0)
  /\ [][(mainpc' = mainpc /\ workervars' # workervars) =>
           /\ cachefile' = cachefile
           /\ seenCache' = seenCache
           /\ fileReads' = fileReads
           /\ fileWrites' = fileWrites]_vars

\* a worker process has been started
WorkersStarted == workers # {} \/ \E w \in DOMAIN wpc : wpc[w] # "unborn"

\* C11 as claimed: the cache file is read exactly once, before any worker
\* process is started, and written exactly once, after the outstanding list
\* is empty and every worker has been terminated and joined, also when
\* nothing was dispatched; no step of a worker reads or writes the file or
\* changes the cache.
C11_CacheFileOnceEach ==
  /\ [](/\ fileReads <= 1
        /\ WorkersStarted => fileReads = 1
        /\ fileWrites = 1 => fileReads = 1)
  /\ WrittenOnceAtEnd

\* C11 as amended: the cache file is read exactly once when there is one at
\* the start and never when there is none, in both cases before any worker
\* process is started and never after; it is written exactly once, after
\* the outstanding list is empty and every worker has been terminated and
\* joined, also when nothing was dispatched; no step of a worker reads or
\* writes the file or changes the cache.
C11_ReadOnceIfPresent ==
  /\ [](/\ fileReads <= 1
        /\ ~isfile0 => fileReads = 0
        /\ (isfile0 /\ WorkersStarted) => fileReads = 1
        /\ (isfile0 /\ fileWrites = 1) => fileReads = 1)
  /\ [][fileReads' # fileReads => ~WorkersStarted /\ ~WorkersStarted']_vars
  /\ WrittenOnceAtEnd

\* a run that found a cache file has ended: two workers ran jobs and the
\* file was read once and written once
C11_Witness ==
  /\ mainpc = "finished"
  /\ isfile0
  /\ fileReads = 1
  /\ fileWrites = 1
  /\ Cardinality(Finished) >= 2

\* the hosts whose result main has received in this run
Completed == BagToSet(received)

\* line j of the cache file found at the start has an age at load, in
\* ticks, below the limit; KeptLines are such lines that name no completed
\* host
Young(j, limit) == loadedAt[j] - file0[j][2] * TicksPerSec < limit

\* (of several young lines for one host the last is the loaded one)
KeptLines(limit) ==
  { file0[i] : i \in { j \in DOMAIN file0 :
       /\ file0[j][1] \notin Completed
       /\ Young(j, limit)
       /\ \A k \in DOMAIN file0 :
             (k > j /\ file0[k][1] = file0[j][1]) => ~Young(k, limit) } }

\* C12 as claimed: the file written at the end holds exactly the loaded
\* lines whose elapsed time at load was at most 3600 seconds and whose host
\* did not complete in this run, unchanged, and one line per completed host
\* stamped with the time its result was received.
C12_ExactWindow ==
  mainpc = "finished" =>
     /\ Len(cachefile) = Cardinality(Range(cachefile))
     /\ {l \in Range(cachefile) : l[1] \notin Completed}
          = KeptLines(RetentionSecs * TicksPerSec + 1)
     /\ {l[1] : l \in {m \in Range(cachefile) : m[1] \in Completed}} = Completed
     /\ \A l \in Range(cachefile) :
           l[1] \in Completed => l[2] * TicksPerSec = recvAt[l[1]]

\* C12 as amended: the file written at the end holds exactly the loaded lines
\* whose elapsed time at load, cut to whole seconds, was at most 3600 (so
\* less than 3601 seconds) and whose host did not complete in this run,
\* unchanged, and one line per completed host stamped with the time its
\* result was received, cut to whole seconds.
C12_WholeSeconds ==
  mainpc = "finished" =>
     /\ Len(cachefile) = Cardinality(Range(cachefile))
     /\ {l \in Range(cachefile) : l[1] \notin Completed}
          = KeptLines((RetentionSecs + 1) * TicksPerSec)
     /\ {l[1] : l \in {m \in Range(cachefile) : m[1] \in Completed}} = Completed
     /\ \A l \in Range(cachefile) :
           l[1] \in Completed =>
              /\ l[2] * TicksPerSec <= recvAt[l[1]]
              /\ recvAt[l[1]] < (l[2] + 1) * TicksPerSec

\* a run has ended whose file keeps the line loaded at the edge of the
\* window, lacks the line past it and has a line for a host completed now
C12_Witness ==
  /\ mainpc = "finished"
  /\ <<w2, Strftime(Now0) - RetentionSecs>> \in Range(cachefile)
  /\ <<tegra1, Strftime(Now0) - RetentionSecs - 1>> \in Range(file0)
  /\ tegra1 \in Completed
  /\ \E l \in Range(cachefile) : l[1] = tegra1

\* the number of workers inside checkKitten with host h
Running(h) == Cardinality({w \in HeldAt(Inside) : wjob[w] = h})

\* C13 as claimed: at no time are two workers running checkKitten on the
\* same host identifier.
C13_OneWorkerPerHost == \A h \in Hosts : Running(h) <= 1

\* C13 as amended: at no time are two workers running checkKitten on the
\* same job: per identifier, the workers running it, its copies still on the
\* work queue and its completed runs add up to the times it was enqueued,
\* so two workers run the same identifier at once only when it was accepted
\* from more than one input line.
C13_OneWorkerPerJob ==
  \A h \in Hosts :
     /\ Running(h) + CopiesIn(h, SeqToBag(WorkChannel)) + CopiesIn(h, ran)
          = CopiesIn(h, SeqToBag(submitted))
     /\ CopiesIn(h, SeqToBag(submitted)) <= 1 => Running(h) <= 1

\* two workers are running checkKitten on a host that was accepted twice,
\* each with remote calls made
C13_Witness ==
  \E h \in Hosts :
     /\ Running(h) = 2
     /\ CopiesIn(h, SeqToBag(submitted)) = 2
     /\ \A w \in HeldAt(Inside) : wjob[w] = h => Len(wrun[w].ops) >= 2

\* the jobs in the hands of a worker whose remote call never returns
HungBag ==
  [x \in {wjob[w] : w \in hung} |-> Cardinality({w \in hung : wjob[w] = x})]

SubmissionOver == mainpc \in {"wait", "write", "finished", "crashed"}

\* every submitted job other than a stalled one has been run and reported
OthersReported ==
  /\ reported (+) HungBag = SeqToBag(submitted)
  /\ ran = reported
  /\ BufferedFrom(DOMAIN resultBuffer) = EmptyBag

\* more than one worker is stalled
SeveralStalled == Cardinality(hung) > 1

\* C14 as claimed: if one worker's remote call never returns, and no other
\* worker's, then, for every worker count that starts at least one worker,
\* every other submitted host is eventually run and reported.
C14_OneWorkerSuffices ==
  (SubmissionOver /\ options.workers - 1 >= 1) ~> (OthersReported \/ SeveralStalled)

\* C14 as amended: if one worker's remote call never returns, and no other
\* worker's, then, for every worker count that starts at least two workers,
\* every other submitted host is eventually run and reported.
C14_TwoWorkersSuffice ==
  (SubmissionOver /\ options.workers - 1 >= 2) ~> (OthersReported \/ SeveralStalled)

\* one of two workers is stalled and the two other jobs have been reported
C14_Witness ==
  /\ Cardinality(hung) = 1
  /\ \E w \in hung : wrun[w].ops # <<>>
  /\ Cardinality(workers) >= 2
  /\ Len(submitted) = 3
  /\ OthersReported

\* candidate i is accepted by the filter, judged from the inputs and the
\* loaded cache alone
Passes(i) ==
  Eligible(i) /\ (options.force \/ KittenOf(kittens[i]) \notin DOMAIN loaded)

\* the accepted names among the first n candidates, in input order
RECURSIVE PassSeq(_)
PassSeq(n) ==
  IF n = 0 THEN <<>>
  ELSE IF Passes(n) THEN Append(PassSeq(n - 1), KittenOf(kittens[n]))
       ELSE PassSeq(n - 1)

\* C15: what has been put on the work queue is, in input order, the names of
\* the candidates passed so far that pass the filter; a name accepted on k
\* lines is enqueued k times and added k times to the outstanding list; the
\* work queue hands the jobs out in that order.
C15_InputOrderWithRepeats ==
  idx >= 1 =>
     /\ submitted = PassSeq(idx - 1)
     /\ enqAt = {i \in 1..(idx - 1) : Passes(i)}
     /\ \A h \in Range(submitted) :
           CopiesIn(h, SeqToBag(submitted))
             = Cardinality({i \in 1..(idx - 1) : Passes(i) /\ KittenOf(kittens[i]) = h})
     /\ mainpc \in {"filter", "crashed"} => results = submitted
     /\ \E n \in 0..Len(submitted) :
           WorkChannel = SubSeq(submitted, n + 1, Len(submitted))

\* the filter has finished and has enqueued one name twice, then another
C15_Witness ==
  /\ mainpc = "wait"
  /\ Len(submitted) = 3
  /\ submitted[1] = submitted[2]
  /\ submitted[3] # submitted[1]

\* the run cannot fetch its inventory or cannot parse its cache file
FatalStart == ~slavealloc.ok \/ Malformed(file0)

\* no worker process was ever started and no host dispatched or processed
NothingStarted ==
  /\ workers = {}
  /\ \A w \in DOMAIN wpc : wpc[w] = "unborn"
  /\ submitted = <<>>
  /\ WorkChannel = <<>>
  /\ ran = EmptyBag

\* C16 as claimed: on a failed inventory fetch, a failed candidate fetch (a
\* url that returns nothing, a missing file) or a malformed cache file the
\* run aborts: no worker is started, no host processed, no file written.
C16_AbortOnStartupError ==
  (FatalStart \/ ~source.ok) =>
     /\ NothingStarted
     /\ fileWrites = 0
     /\ cachefile = file0
     /\ mainpc \in {"start", "aborted"}

\* C16 as amended: on a failed inventory fetch or a malformed cache file the
\* run aborts before any dispatch: no worker is started, no host processed,
\* no file written.  A failed candidate fetch does not abort the run: no
\* host is dispatched or processed, but the cache file is rewritten from the
\* loaded cache; for a url that returns nothing the workers are started and
\* terminated first, for a missing file no worker is started.
C16_StartupErrors ==
  /\ FatalStart =>
        /\ NothingStarted
        /\ fileWrites = 0
        /\ cachefile = file0
        /\ mainpc \in {"start", "aborted"}
  /\ (~FatalStart /\ ~source.ok) =>
        /\ submitted = <<>>
        /\ WorkChannel = <<>>
        /\ ran = EmptyBag
        /\ mainpc \notin {"aborted", "crashed", "filter"}
        /\ source.kind = "file" => NothingStarted
        /\ (source.kind = "url" /\ MainDone) =>
              /\ workers = {}
              /\ \A w \in DOMAIN wpc : wpc[w] = "idle"
        /\ mainpc = "finished" =>
              /\ fileWrites = 1
              /\ Range(cachefile) = {<<h, loaded[h] \div TicksPerSec>> : h \in DOMAIN loaded}

\* the candidate url returned nothing; workers were started and terminated
\* and the cache file was written
C16_Witness ==
  /\ ~source.ok
  /\ source.kind = "url"
  /\ mainpc = "finished"
  /\ fileWrites = 1
  /\ DOMAIN wpc # {}
  /\ loaded # EmptyDict

\* candidate i passes the filter pattern and names no host of the inventory
Unknown(i) ==
  /\ options.filter # None => ReFilterSearch(options.filter, KittenOf(kittens[i]))
  /\ KittenOf(kittens[i]) \notin Hosts

\* C17: a candidate that passes the filter pattern and is absent from the
\* inventory ends the run at that candidate: the loop never gets past it, no
\* later candidate is enqueued, the result loop is not entered, no host is
\* marked seen and the cache file is not written.
C17_AbortOnUnknownHost ==
  /\ \A i \in 1..(idx - 1) : ~Unknown(i)
  /\ (idx \in DOMAIN kittens /\ mainpc # "start" /\ Unknown(idx)) =>
        mainpc \in {"filter", "crashed"}
  /\ mainpc = "crashed" =>
        /\ Unknown(idx)
        /\ \A i \in enqAt : i < idx
        /\ Len(WorkChannel) + BagCardinality(dequeued) = Cardinality(enqAt)
        /\ received = EmptyBag
        /\ recvAt = EmptyDict
        /\ seenCache = loaded
        /\ fileWrites = 0
        /\ cachefile = file0

\* the run has ended at an unknown name with a candidate after it, and a
\* worker has run the host that was enqueued before it
C17_Witness ==
  /\ mainpc = "crashed"
  /\ idx < Len(kittens)
  /\ submitted # <<>>
  /\ ran = SeqToBag(submitted)

\* C18: when main terminates the workers the work queue is empty and every
\* worker is idle in its dequeue loop, none inside checkKitten or about to
\* report.
C18_TerminateFindsWorkersIdle ==
  /\ []((mainpc = "wait" /\ results = <<>>) =>
           /\ WorkChannel = <<>>
           /\ ResultChannel = EmptyBag
           /\ \A w \in workers : wpc[w] = "idle")
  /\ [][(workers # {} /\ workers' = {}) =>
           /\ WorkChannel = <<>>
           /\ \A w \in workers : wpc[w] = "idle"]_vars
  /\ [](MainDone => \A w \in DOMAIN wpc : wpc[w] \in {"idle", "unborn"})

\* the workers have been terminated after two of them ran jobs
C18_Witness ==
  /\ mainpc = "write"
  /\ workers = {}
  /\ Cardinality(Finished) >= 2
  /\ Len(submitted) = 3

\* C19: once submission is over, the outstanding list held by main is, as a
\* multiset, the work queue plus the jobs held by workers plus the result
\* queue, so the result main takes next is in the outstanding list.
C19_Conservation ==
  SubmissionOver =>
     /\ SeqToBag(results)
          = SeqToBag(WorkChannel) (+) HeldBag(Inside \cup {"checked"}) (+) ResultChannel
     /\ resultQueue # <<>> => Head(resultQueue) \in Range(results)

\* main is waiting with one job queued, one held by a worker and one result
\* not yet taken
C19_Witness ==
  /\ mainpc = "wait"
  /\ WorkChannel # <<>>
  /\ HeldAt(Inside \cup {"checked"}) # {}
  /\ resultQueue # <<>>
  /\ Len(results) = 3

\* C20: whenever main has stopped, normally or on a fatal error in the
\* filter loop, every spawned worker has been terminated and every job a
\* worker has processed is marked seen.
C20_StopsClean ==
  mainpc \in {"finished", "crashed"} =>
     /\ workers = {}
     /\ \A h \in BagToSet(ran) : h \in DOMAIN recvAt /\ h \in DOMAIN seenCache
====
